---- MODULE Spec2Model ----
(***************************************************************************)
(* Model of src/main.py (music-match backend): the /match-users ranking    *)
(* over the "sessions" and "users" collections, and the /chats endpoints   *)
(* over the "chats" collection.                                            *)
(*                                                                         *)
(* Collections are sequences in natural (insertion) order.  The sessions   *)
(* collection is kept run-length encoded: a run [user_id, artist_name, n]  *)
(* stands for n consecutive session documents of that user and artist.     *)
(* `resp` is the response produced by the last handler step.               *)
(***************************************************************************)
EXTENDS Integers, Sequences, FiniteSets, TLC

VARIABLES users, sessions, inserted, chats, pc, req, clock, resp

vars == <<users, sessions, inserted, chats, pc, req, clock, resp>>

----------------------------------------------------------------------------
(* Bounds of the exploration *)

NumActive == 2      \* users 1..NumActive call the endpoints during a run
CrowdSize == 100    \* users with stored sessions in the "crowd" store
HeavyEvents == 1000 \* stored sessions of user 1 in the "heavy" store
MaxEvents == 1      \* session documents inserted by /current-track in a run
MaxPivot == 2       \* starting points tried for the order of $group's output
MaxReq == 1         \* POST /chats requests in a run (one more where two overlap)
PreloadChats == 100 \* stored chat messages in the "busy" chat log

(* Program constants *)

FindLimit == 1000   \* to_list(length=1000) of the requesting user's sessions
GroupLimit == 100   \* to_list(length=100) of the aggregation
MatchLimit == 10    \* matches[:10]
TopLimit == 5       \* [:5] of top_artists
ChatLimit == 100    \* to_list(length=100) of get_chats

Artists == {"A", "B", "C"}
ActiveUsers == 1..NumActive
CrowdUsers == (NumActive + 1)..(NumActive + CrowdSize)
ChatUsers == {"u1", "u2", "u3"}
None == "<None>"
Reqs == 1..(MaxReq + 1)

Min(a, b) == IF a <= b THEN a ELSE b
Max(a, b) == IF a >= b THEN a ELSE b

\* greatest and least of the numbers k[i..j] of a sequence
RECURSIVE MaxKey(_, _, _)
MaxKey(k, i, j) ==
    IF i = j THEN k[i]
    ELSE Max(MaxKey(k, i, (i + j) \div 2), MaxKey(k, (i + j) \div 2 + 1, j))

RECURSIVE MinKey(_, _, _)
MinKey(k, i, j) ==
    IF i = j THEN k[i]
    ELSE Min(MinKey(k, i, (i + j) \div 2), MinKey(k, (i + j) \div 2 + 1, j))

----------------------------------------------------------------------------
(* Cursor helpers *)

\* cursor.to_list(length=n) on a sequence of documents
ToList(s, n) == SubSeq(s, 1, Min(Len(s), n))

\* cursor.to_list(length=n) on run-length encoded documents
RECURSIVE ToListRuns(_, _)
ToListRuns(runs, n) ==
    IF runs = <<>> \/ n = 0 THEN <<>>
    ELSE LET r == Head(runs) IN
         IF r.n >= n THEN <<[r EXCEPT !.n = n]>>
         ELSE <<r>> \o ToListRuns(Tail(runs), n - r.n)

\* collection.insert_one(doc): appended in natural order
InsertOne(coll, doc) == Append(coll, doc)

----------------------------------------------------------------------------
(* /match-users *)

\* sessions_collection.find({"user_id": spotify_id}).to_list(length=1000)
UserSessions(u) ==
    ToListRuns(SelectSeq(sessions, LAMBDA r : r.user_id = u), FindLimit)

\* number of documents for artist a in a run-length encoded list
RECURSIVE CountOf(_, _)
CountOf(runs, a) ==
    IF runs = <<>> THEN 0
    ELSE (IF Head(runs).artist_name = a THEN Head(runs).n ELSE 0)
         + CountOf(Tail(runs), a)

\* the loop "counts[artist] = counts.get(artist, 0) + 1": a dict keyed by
\* the artists that occur
ArtistCounts(runs) ==
    [a \in {runs[i].artist_name : i \in DOMAIN runs} |-> CountOf(runs, a)]

\* iteration order of that dict: artists in order of first occurrence
RECURSIVE KeyOrder(_, _)
KeyOrder(runs, seen) ==
    IF runs = <<>> THEN seen
    ELSE LET a == Head(runs).artist_name IN
         KeyOrder(Tail(runs),
                  IF \E i \in DOMAIN seen : seen[i] = a THEN seen
                  ELSE Append(seen, a))

\* the pipeline without its $match stage
PipelineMatch_NoFilter(r, u) == TRUE

\* {"$match": {"user_id": {"$ne": spotify_id}}}
PipelineMatch(r, u) == r.user_id # u

\* {"$group": {"_id": "$user_id", "artists": {"$addToSet": ...},
\*             "sessions": {"$push": ...}}}: one document per user id
GroupIds(u) ==
    {sessions[i].user_id : i \in {j \in DOMAIN sessions : PipelineMatch(sessions[j], u)}}

GroupDoc(g) ==
    LET mine == SelectSeq(sessions, LAMBDA r : r.user_id = g) IN
    [_id |-> g,
     artists |-> {mine[i].artist_name : i \in DOMAIN mine},
     sessions |-> mine]

\* The order of $group's output is unspecified.  The orders explored are the
\* rotations of the ascending id order that start at its p-th element
\* (p <= MaxPivot), read forwards or backwards.
SortedIds(G) ==
    SelectSeq([i \in 1..(NumActive + CrowdSize) |-> i], LAMBDA i : i \in G)

GroupOrder(G, p, fwd) ==
    LET L == SortedIds(G)
        n == Len(L)
    IN [i \in 1..n |->
          L[((IF fwd THEN (p - 1) + (i - 1) ELSE (p - 1) + n * n - (i - 1)) % n) + 1]]

\* sessions_collection.aggregate(pipeline).to_list(length=100)
Aggregate(u, p, fwd) ==
    LET ord == ToList(GroupOrder(GroupIds(u), p, fwd), GroupLimit)
    IN [i \in DOMAIN ord |-> GroupDoc(ord[i])]

\* sorted(other_counts, key=other_counts.get, reverse=True): stable,
\* descending by count
RECURSIVE InsertByCount(_, _, _)
InsertByCount(s, a, counts) ==
    IF s = <<>> \/ counts[s[Len(s)]] >= counts[a] THEN Append(s, a)
    ELSE Append(InsertByCount(SubSeq(s, 1, Len(s) - 1), a, counts), s[Len(s)])

RECURSIVE SortByCount(_, _)
SortByCount(keys, counts) ==
    IF keys = <<>> THEN <<>>
    ELSE InsertByCount(SortByCount(SubSeq(keys, 1, Len(keys) - 1), counts),
                       keys[Len(keys)], counts)

TopArtists(runs) ==
    ToList(SortByCount(KeyOrder(runs, <<>>), ArtistCounts(runs)), TopLimit)

\* the loop without its "continue"
SkipCandidate_Never(shared) == FALSE

\* "if not shared_artists: continue"
SkipCandidate(shared) == shared = {}

\* sum(min(user_artist_counts[a], other_counts[a]) for a in shared_artists)
RECURSIVE Similarity(_, _, _)
Similarity(shared, mine, theirs) ==
    IF shared = {} THEN 0
    ELSE LET a == CHOOSE x \in shared : TRUE IN
         Min(mine[a], theirs[a]) + Similarity(shared \ {a}, mine, theirs)

\* body of "for user in other_users": the entry appended for one group, or
\* nothing
MatchEntry(user, user_artist_counts) ==
    LET other_counts == ArtistCounts(user.sessions)
        shared_artists == (DOMAIN user_artist_counts) \cap user.artists
    IN IF SkipCandidate(shared_artists) THEN <<>>
       ELSE IF user._id \notin users THEN <<>>
       ELSE <<[spotify_id |-> user._id,
               similarity |-> Similarity(shared_artists, user_artist_counts, other_counts),
               shared_artists |-> shared_artists,
               top_artists |-> TopArtists(user.sessions)]>>

\* the loop "for user in other_users": the entries in the order of the groups
BuildMatches(other_users, user_artist_counts) ==
    LET entries == [i \in DOMAIN other_users |->
                       MatchEntry(other_users[i], user_artist_counts)]
        kept == SelectSeq(entries, LAMBDA e : e # <<>>)
    IN [i \in DOMAIN kept |-> kept[i][1]]

\* matches.sort(key=lambda x: x["similarity"], reverse=True): stable,
\* descending by similarity.  The list is split by key around the middle of
\* the key range lo..hi, each part keeping its order.
SortKeyGT(x, k) == x.similarity > k

RECURSIVE SortMatchesIn(_, _, _)
SortMatchesIn(ms, lo, hi) ==
    IF Len(ms) <= 1 \/ lo >= hi THEN ms
    ELSE LET mid == (lo + hi) \div 2 IN
         SortMatchesIn(SelectSeq(ms, LAMBDA x : SortKeyGT(x, mid)), mid + 1, hi)
         \o SortMatchesIn(SelectSeq(ms, LAMBDA x : ~SortKeyGT(x, mid)), lo, mid)

\* the sort without reverse=True
SortMatches_Ascending(ms) ==
    LET keys == [i \in DOMAIN ms |-> ms[i].similarity]
        d == IF ms = <<>> THEN ms
             ELSE SortMatchesIn(ms, MinKey(keys, 1, Len(ms)), MaxKey(keys, 1, Len(ms)))
    IN [i \in DOMAIN d |-> d[Len(d) + 1 - i]]

SortMatches(ms) ==
    LET keys == [i \in DOMAIN ms |-> ms[i].similarity] IN
    IF ms = <<>> THEN ms
    ELSE SortMatchesIn(ms, MinKey(keys, 1, Len(ms)), MaxKey(keys, 1, Len(ms)))

\* the value returned by get_user_matches for a valid token of user u
GetUserMatches(u, p, fwd) ==
    LET user_artist_counts == ArtistCounts(UserSessions(u))
        other_users == Aggregate(u, p, fwd)
        matches == BuildMatches(other_users, user_artist_counts)
    IN ToList(SortMatches(matches), MatchLimit)

\* GET /match-users
MatchUsers(u, p, fwd) ==
    /\ p <= IF GroupIds(u) = {} THEN 1 ELSE Cardinality(GroupIds(u))
    /\ resp' = [op |-> "match-users", user |-> u, status |-> 200,
                matches |-> GetUserMatches(u, p, fwd)]
    /\ UNCHANGED <<users, sessions, inserted, chats, pc, req, clock>>

\* GET /callback: upsert of the user document
Callback(u) ==
    /\ users' = users \cup {u}
    /\ resp' = [op |-> "callback", user |-> u, status |-> 307]
    /\ UNCHANGED <<sessions, inserted, chats, pc, req, clock>>

\* GET /current-track with a valid token of user u; track is the artist of
\* the playing track, or None when nothing is playing
CurrentTrack(u, track) ==
    /\ IF u \notin users
       THEN /\ resp' = [op |-> "current-track", user |-> u, status |-> 404]
            /\ UNCHANGED <<sessions, inserted>>
       ELSE /\ resp' = [op |-> "current-track", user |-> u, status |-> 200]
            /\ IF track # None
               THEN /\ inserted < MaxEvents
                    /\ sessions' = InsertOne(sessions,
                                     [user_id |-> u, artist_name |-> track, n |-> 1])
                    /\ inserted' = inserted + 1
               ELSE UNCHANGED <<sessions, inserted>>
    /\ UNCHANGED <<users, chats, pc, req, clock>>

----------------------------------------------------------------------------
(* Stores the matcher starts from *)

Run(u, a, n) == [user_id |-> u, artist_name |-> a, n |-> n]

CrowdRun(k) == Run(k, IF k % 2 = 0 THEN "A" ELSE "B", IF k % 20 = 0 THEN 2 ELSE 1)

Stores == {"fresh", "scenario", "heavy", "crowd"}

StoreSessions(w) ==
    CASE w = "fresh" -> <<>>
      [] w = "scenario" -> <<Run(1, "A", 3), Run(1, "B", 1), Run(2, "A", 2),
                             Run(2, "C", 5), Run(3, "A", 1)>>
      [] w = "heavy" -> <<Run(1, "A", HeavyEvents), Run(2, "A", 2), Run(2, "B", 1),
                          Run(3, "B", 1)>>
      [] w = "crowd" -> <<Run(1, "A", 2), Run(2, "A", 2)>>
                        \o [i \in 1..CrowdSize |-> CrowdRun(NumActive + i)]

StoreUsers(w) ==
    CASE w = "fresh" -> {}
      [] w = "scenario" -> {1, 2}
      [] w = "heavy" -> {1, 2, 3}
      [] w = "crowd" -> {1, 2} \cup CrowdUsers

NoResp == [op |-> "none", status |-> 0]

ChatIdle ==
    /\ chats = <<>>
    /\ pc = [r \in Reqs |-> "idle"]
    /\ req = [r \in Reqs |-> None]
    /\ clock = 0

InitMatch ==
    /\ \E w \in Stores : sessions = StoreSessions(w) /\ users = StoreUsers(w)
    /\ inserted = 0
    /\ resp = NoResp
    /\ ChatIdle

NextMatch ==
    \/ \E u \in ActiveUsers : Callback(u)
    \/ \E u \in ActiveUsers, track \in Artists \cup {None} : CurrentTrack(u, track)
    \/ \E u \in ActiveUsers, p \in 1..MaxPivot, fwd \in BOOLEAN : MatchUsers(u, p, fwd)

SpecMatch == InitMatch /\ [][NextMatch]_vars

----------------------------------------------------------------------------
(* /chats *)

\* "not x" for a field of the request body: missing (None) or empty
Falsy(x) == x = None \/ x = ""

\* str(ObjectId) and datetime.isoformat(): the value changes type
Str(id) == <<"str", id>>
IsoFormat(t) == <<"iso", t>>

\* raise HTTPException(status_code=..., detail=...)
HTTPException(status, detail) == [status |-> status, detail |-> detail]

\* "except Exception as e" of save_chat: whatever was raised inside the try
\* block, HTTPException included, is answered with status 500
SaveChatExcept(e) == HTTPException(500, "Failed to save chat")

\* "except Exception as e" of get_chats
GetChatsExcept(e) == HTTPException(500, "Failed to fetch chats")

\* chats_collection.insert_one(chat_doc): the document gets its _id and is
\* appended in natural order
InsertChat(coll, doc) ==
    Append(coll, [_id |-> Len(coll) + 1,
                  sender_id |-> doc.sender_id,
                  receiver_id |-> doc.receiver_id,
                  message |-> doc.message,
                  timestamp |-> doc.timestamp])

\* POST /chats up to the await of insert_one: the body is read and checked,
\* chat_doc is built with the time read from the clock (a clock that does
\* not run backwards; two reads may give the same value)
SaveChatBegin(r, data, now) ==
    /\ pc[r] = "idle"
    /\ \A q \in Reqs : q < r => pc[q] # "idle"
    /\ IF Falsy(data.sender_id) \/ Falsy(data.receiver_id) \/ Falsy(data.message)
       THEN /\ pc' = [pc EXCEPT ![r] = "rejected"]
            /\ resp' = [op |-> "save_chat", req |-> r] @@
                       SaveChatExcept(HTTPException(400,
                           "Missing sender_id, receiver_id, or message."))
            /\ UNCHANGED <<req, clock>>
       ELSE /\ clock' = now
            /\ req' = [req EXCEPT ![r] = [sender_id |-> data.sender_id,
                                          receiver_id |-> data.receiver_id,
                                          message |-> data.message,
                                          timestamp |-> now]]
            /\ pc' = [pc EXCEPT ![r] = "insert"]
            /\ resp' = NoResp
    /\ UNCHANGED <<users, sessions, inserted, chats>>

\* insert_one completes: the success response
SaveChatInsert(r) ==
    /\ pc[r] = "insert"
    /\ chats' = InsertChat(chats, req[r])
    /\ pc' = [pc EXCEPT ![r] = "saved"]
    /\ req' = [req EXCEPT ![r] = None]
    /\ resp' = [op |-> "save_chat", req |-> r, status |-> 200, success |-> TRUE,
                chat_id |-> Str(Len(chats) + 1),
                message |-> "Chat saved successfully"]
    /\ UNCHANGED <<users, sessions, inserted, clock>>

\* a failure that is reported although the document was written
SaveChatInsertFail_Writes(r) ==
    /\ pc[r] = "insert"
    /\ chats' = InsertChat(chats, req[r])
    /\ pc' = [pc EXCEPT ![r] = "failed"]
    /\ req' = [req EXCEPT ![r] = None]
    /\ resp' = [op |-> "save_chat", req |-> r] @@
               SaveChatExcept([status |-> 0, detail |-> "insert_one"])
    /\ UNCHANGED <<users, sessions, inserted, clock>>

\* insert_one raises: nothing is written
SaveChatInsertFail(r) ==
    /\ pc[r] = "insert"
    /\ pc' = [pc EXCEPT ![r] = "failed"]
    /\ req' = [req EXCEPT ![r] = None]
    /\ resp' = [op |-> "save_chat", req |-> r] @@
               SaveChatExcept([status |-> 0, detail |-> "insert_one"])
    /\ UNCHANGED <<users, sessions, inserted, chats, clock>>

\* the filter with its first branch only
ChatFilter_OneDirection(d, sender_id, receiver_id) ==
    d.sender_id = sender_id /\ d.receiver_id = receiver_id

\* the "$or" filter of get_chats
ChatFilter(d, sender_id, receiver_id) ==
    \/ d.sender_id = sender_id /\ d.receiver_id = receiver_id
    \/ d.sender_id = receiver_id /\ d.receiver_id = sender_id

\* .sort("timestamp", 1): ascending; documents with equal timestamps stay
\* in natural order.  The list is split by key around the middle of the key
\* range lo..hi, each part keeping its order.
RECURSIVE SortByTimestampIn(_, _, _)
SortByTimestampIn(s, lo, hi) ==
    IF Len(s) <= 1 \/ lo >= hi THEN s
    ELSE LET mid == (lo + hi) \div 2 IN
         SortByTimestampIn(SelectSeq(s, LAMBDA d : d.timestamp <= mid), lo, mid)
         \o SortByTimestampIn(SelectSeq(s, LAMBDA d : d.timestamp > mid), mid + 1, hi)

SortByTimestamp(s) ==
    LET keys == [i \in DOMAIN s |-> s[i].timestamp] IN
    IF s = <<>> THEN s
    ELSE SortByTimestampIn(s, MinKey(keys, 1, Len(s)), MaxKey(keys, 1, Len(s)))

\* chats_cursor.to_list(length=100)
ChatsCursor(sender_id, receiver_id) ==
    ToList(SortByTimestamp(
               SelectSeq(chats, LAMBDA d : ChatFilter(d, sender_id, receiver_id))),
           ChatLimit)

\* the loop that converts _id and timestamp for serialization
Serialize(cs) ==
    [i \in DOMAIN cs |-> [cs[i] EXCEPT !._id = Str(cs[i]._id),
                                      !.timestamp = IsoFormat(cs[i].timestamp)]]

\* the body returned by get_chats
GetChatsBody(sender_id, receiver_id) ==
    LET cs == Serialize(ChatsCursor(sender_id, receiver_id))
    IN [success |-> TRUE, total |-> Len(cs), chats |-> cs]

\* GET /chats
GetChats(sender_id, receiver_id) ==
    /\ resp' = [op |-> "get_chats", sender_id |-> sender_id,
                receiver_id |-> receiver_id, status |-> 200] @@
               GetChatsBody(sender_id, receiver_id)
    /\ UNCHANGED <<users, sessions, inserted, chats, pc, req, clock>>

\* GET /chats when the query raises
GetChatsFail(sender_id, receiver_id) ==
    /\ resp' = [op |-> "get_chats"] @@
               GetChatsExcept([status |-> 0, detail |-> "find"])
    /\ UNCHANGED <<users, sessions, inserted, chats, pc, req, clock>>

\* The chat log the run starts from: empty, or PreloadChats messages that
\* u1 and u2 sent each other one after the other
PreloadedChat(i) ==
    [_id |-> i,
     sender_id |-> IF i % 2 = 1 THEN "u1" ELSE "u2",
     receiver_id |-> IF i % 2 = 1 THEN "u2" ELSE "u1",
     message |-> "hi",
     timestamp |-> i]

InitChat ==
    /\ users = {}
    /\ sessions = <<>>
    /\ inserted = 0
    /\ pc = [r \in Reqs |-> "idle"]
    /\ req = [r \in Reqs |-> None]
    /\ resp = NoResp
    /\ \E n \in {0, PreloadChats} :
          /\ chats = [i \in 1..n |-> PreloadedChat(i)]
          /\ clock = n

Bodies ==
    [sender_id : ChatUsers \cup {None},
     receiver_id : ChatUsers \cup {None},
     message : {"hi", ""}]

\* the chat endpoints with at most n POST /chats requests
ChatNext(n) ==
    \/ \E r \in 1..n, data \in Bodies, now \in clock..(clock + 1) :
          SaveChatBegin(r, data, now)
    \/ \E r \in 1..n : SaveChatInsert(r)
    \/ \E r \in 1..n : SaveChatInsertFail(r)
    \/ \E a \in ChatUsers, b \in ChatUsers : GetChats(a, b)
    \/ \E a \in ChatUsers, b \in ChatUsers : GetChatsFail(a, b)

NextChat == ChatNext(MaxReq)

SpecChat == InitChat /\ [][NextChat]_vars

\* one request more, so that two POST /chats requests can be in flight
NextChatOverlap == ChatNext(MaxReq + 1)

SpecChatOverlap == InitChat /\ [][NextChatOverlap]_vars

----------------------------------------------------------------------------
(* What the claims speak about: the stored data itself, without the limits *)
(* of the handlers                                                         *)

IsMatch == resp.op = "match-users"
IsGet == resp.op = "get_chats" /\ resp.status = 200

StoredSessions(u) == SelectSeq(sessions, LAMBDA r : r.user_id = u)
StoredArtists(u) ==
    {sessions[i].artist_name : i \in {j \in DOMAIN sessions : sessions[j].user_id = u}}
StoredCount(u, a) == CountOf(StoredSessions(u), a)
Common(u, v) == StoredArtists(u) \cap StoredArtists(v)

RECURSIVE SumMin(_, _, _)
SumMin(S, u, v) ==
    IF S = {} THEN 0
    ELSE LET a == CHOOSE x \in S : TRUE IN
         Min(StoredCount(u, a), StoredCount(v, a)) + SumMin(S \ {a}, u, v)

StoredSimilarity(u, v) == SumMin(Common(u, v), u, v)

\* number of stored session documents of u
RECURSIVE SumCount(_, _)
SumCount(S, u) ==
    IF S = {} THEN 0
    ELSE LET a == CHOOSE x \in S : TRUE IN
         StoredCount(u, a) + SumCount(S \ {a}, u)

StoredTotal(u) == SumCount(StoredArtists(u), u)

AllUserIds == 1..(NumActive + CrowdSize)
Returned == {resp.matches[i].spotify_id : i \in DOMAIN resp.matches}

\* the stored conversation of a and b, and what a response lists
Conversation(a, b) ==
    SelectSeq(chats, LAMBDA d : {d.sender_id, d.receiver_id} = {a, b})
ReturnedIds == {resp.chats[i]._id[2] : i \in DOMAIN resp.chats}

----------------------------------------------------------------------------
(* Claims *)

\* C1: get_chats(A,B) returns min(N,100) of the N stored messages of A and B;
\* when N > 100 they are the 100 most recent ones (no message left out is
\* newer than a returned one), listed oldest-first.
C1_HistoryMostRecentHundred ==
    IsGet =>
        LET conv == Conversation(resp.sender_id, resp.receiver_id)
            ids == ReturnedIds
            leftOut == {conv[i].timestamp : i \in {k \in DOMAIN conv : conv[k]._id \notin ids}}
            listed == {resp.chats[j].timestamp[2] : j \in DOMAIN resp.chats}
        IN
        /\ Len(resp.chats) = Min(Len(conv), 100)
        /\ \A x \in leftOut : \A y \in listed : x <= y
        /\ \A j \in 1..(Len(resp.chats) - 1) :
              resp.chats[j].timestamp[2] <= resp.chats[j + 1].timestamp[2]

\* C2: the list returned by get_user_matches has at most 10 entries and is
\* sorted non-increasing by similarity.
C2_AtMostTenSortedDescending ==
    IsMatch =>
        /\ Len(resp.matches) <= 10
        /\ \A i \in 1..(Len(resp.matches) - 1) :
              resp.matches[i].similarity >= resp.matches[i + 1].similarity

C2_Witness ==
    /\ IsMatch
    /\ Len(resp.matches) = 10
    /\ resp.matches[1].similarity > resp.matches[10].similarity
    /\ Cardinality({v \in users \ {resp.user} : Common(resp.user, v) # {}}) > 10

\* C3: every returned candidate v has similarity = sum over the artists in
\* both users' stored events of min(count of u, count of v), counting every
\* stored event, and shared_artists is exactly that set of common artists.
C3_SimilarityCountsEveryStoredEvent ==
    IsMatch =>
        \A i \in DOMAIN resp.matches :
            /\ resp.matches[i].similarity
                   = StoredSimilarity(resp.user, resp.matches[i].spotify_id)
            /\ resp.matches[i].shared_artists
                   = Common(resp.user, resp.matches[i].spotify_id)

\* C4: the result of get_user_matches(u) has no candidate whose id is u.
C4_NeverMatchesSelf ==
    IsMatch => resp.user \notin Returned

C4_Witness ==
    /\ IsMatch
    /\ resp.user \in users
    /\ StoredArtists(resp.user) # {}
    /\ resp.matches # <<>>

\* C5: a user whose stored artists are disjoint from the requesting user's
\* is never returned, every returned candidate has similarity >= 1, and a
\* requesting user without stored events gets an empty list, without error.
C5_DisjointUsersExcluded ==
    IsMatch =>
        /\ resp.status = 200
        /\ \A i \in DOMAIN resp.matches :
              /\ Common(resp.user, resp.matches[i].spotify_id) # {}
              /\ resp.matches[i].similarity >= 1
        /\ StoredArtists(resp.user) = {} => resp.matches = <<>>

C5_Witness ==
    /\ IsMatch
    /\ resp.matches # <<>>
    /\ \E v \in users \ {resp.user} :
          /\ StoredArtists(v) # {}
          /\ Common(resp.user, v) = {}
          /\ v \notin Returned

\* C6: every stored message of the conversation is returned (up to 100) and
\* the messages are listed in the order in which they were inserted into the
\* chat log, also when save_chat calls overlap.
C6_ReturnedInInsertionOrder ==
    IsGet =>
        LET conv == Conversation(resp.sender_id, resp.receiver_id) IN
        /\ Len(conv) <= 100 => ReturnedIds = {conv[i]._id : i \in DOMAIN conv}
        /\ \A j \in 1..(Len(resp.chats) - 1) :
              resp.chats[j]._id[2] < resp.chats[j + 1]._id[2]

\* C7: get_chats(A,B) and get_chats(B,A) return the same sequence, and it
\* holds only messages whose sender and receiver are the pair {A,B}.
C7_LookupSymmetric ==
    IsGet =>
        /\ resp.chats = GetChatsBody(resp.receiver_id, resp.sender_id).chats
        /\ \A i \in DOMAIN resp.chats :
              {resp.chats[i].sender_id, resp.chats[i].receiver_id}
                  = {resp.sender_id, resp.receiver_id}

C7_Witness ==
    /\ IsGet
    /\ resp.sender_id # resp.receiver_id
    /\ \E i \in DOMAIN resp.chats : resp.chats[i].sender_id = resp.sender_id
    /\ \E i \in DOMAIN resp.chats : resp.chats[i].sender_id = resp.receiver_id
    /\ \E i \in DOMAIN chats : chats[i]._id \notin ReturnedIds

\* one step of the chat endpoints, as C8 describes it
C8_Step ==
    /\ \A r \in Reqs :
          /\ (pc[r] = "insert" /\ pc'[r] = "failed")
                => /\ chats' = chats
                   /\ resp'.op = "save_chat" /\ resp'.status >= 400
          /\ (pc[r] = "insert" /\ pc'[r] = "saved")
                => /\ Len(chats') = Len(chats) + 1
                   /\ SubSeq(chats', 1, Len(chats)) = chats
                   /\ chats'[Len(chats')].sender_id = req[r].sender_id
                   /\ chats'[Len(chats')].receiver_id = req[r].receiver_id
                   /\ chats'[Len(chats')].message = req[r].message
                   /\ resp'.op = "save_chat" /\ resp'.status = 200
    /\ (\A r \in Reqs : ~(pc[r] = "insert" /\ pc'[r] = "saved")) => chats' = chats
    /\ IsGet' =>
          {<<resp'.chats[i]._id, resp'.chats[i].message>> : i \in DOMAIN resp'.chats}
              \subseteq {<<Str(chats'[k]._id), chats'[k].message>> : k \in DOMAIN chats'}

\* C8: when the write inside save_chat fails the sender gets a failure
\* response and the chat log is unchanged; a successful save_chat appends
\* exactly the one record of its request and changes no other; no step
\* changes the log otherwise, so get_chats lists stored records only.
C8_FailedSaveLeavesLogUnchanged == [][C8_Step]_vars

C8_Witness ==
    /\ IsGet
    /\ resp.chats # <<>>
    /\ \E r \in Reqs : pc[r] = "failed"

\* C9: every user v # u with a profile record and an artist in common with
\* u that is not in the result is outranked: the result then has exactly 10
\* entries, each with similarity >= v's.  Stated for a requesting user whose
\* history is read completely (at most 1000 stored events), so that the
\* histogram of u is not in question here.
C9_TopTenOfAllEligible ==
    (IsMatch /\ StoredTotal(resp.user) <= FindLimit) =>
        \A v \in (AllUserIds \cap users) \ ({resp.user} \cup Returned) :
            Common(resp.user, v) # {}
                => /\ Len(resp.matches) = 10
                   /\ \A i \in DOMAIN resp.matches :
                         resp.matches[i].similarity >= StoredSimilarity(resp.user, v)

\* C10: a save_chat request with a missing or empty field is answered with
\* status 400 and its own message; 500 is for a failed insert only.
C10_MissingFieldAnswered400 ==
    resp.op = "save_chat" =>
        /\ pc[resp.req] = "rejected"
              => /\ resp.status = 400
                 /\ resp.detail = "Missing sender_id, receiver_id, or message."
                 /\ \A i \in DOMAIN chats : ~Falsy(chats[i].message)
        /\ resp.status = 500 => pc[resp.req] = "failed"

====
